---- MODULE Spec2Model ----
(***************************************************************************)
(* A model of the fabric-ca server (lib/server.go): the server life cycle  *)
(* (Init, Start, Stop, serve), the CA key-material bootstrap, the database *)
(* bootstrap (loadUsersTable, loadAffiliationsTable), the enrollment quota *)
(* policy (getMaxEnrollments), and the requests the registered endpoints   *)
(* serve behind the authentication wrapper.                                *)
(*                                                                         *)
(* Strings that the code concatenates (affiliation names and paths) are    *)
(* sequences of one-character strings, so that "a" + "." + "b" and the     *)
(* name "a.b" are the same path, as they are for fmt.Sprintf.              *)
(***************************************************************************)
EXTENDS Integers, Sequences, FiniteSets, TLC

\* ---------------------------------------------------------------- bounds
\* Number of key pairs initca.New may generate in one behaviour.
MaxKeys == 2
\* Number of listeners net.Listen may open in one behaviour.
MaxListeners == 2
\* Largest registry-configured max enrollments drawn for the quota function.
MaxConfigured == 4
\* Largest requested max enrollments drawn for the quota function.
MaxRequested == 6
\* Number of certificates the CA may sign in one behaviour.
MaxSerial == 3

\* ------------------------------------------------------- strings and paths
Dot == "."
Str(c) == <<c>>
EmptyStr == <<>>

\* fmt.Sprintf("%s.%s", parent, name), or name alone under an empty parent.
affiliationPath(name, parent) ==
    IF parent = EmptyStr THEN name ELSE parent \o <<Dot>> \o name

\* ------------------------------------------------- affiliation config tree
\* The untyped node loadAffiliationsTableR switches on: nil, a string, a
\* sequence ([]string or []interface{}), a map[string]interface{}, or a value
\* of any other type (on which the default case's type assertion panics).
NilNode == [k |-> "nil", name |-> EmptyStr, kids |-> <<>>]
Leaf(n) == [k |-> "string", name |-> n, kids |-> <<>>]
List(es) == [k |-> "list", name |-> EmptyStr, kids |-> es]
Entry(n, v) == [key |-> n, val |-> v]
Map(es) == [k |-> "map", name |-> EmptyStr, kids |-> es]
OtherNode == [k |-> "other", name |-> EmptyStr, kids |-> <<>>]

A == Str("a")
B == Str("b")
C == Str("c")
AB == <<"a", ".", "b">>

\* org hierarchy a -> {b, c}
TreeNested == Map(<<Entry(A, List(<<Leaf(B), Leaf(C)>>))>>)
\* two root keys (iterated in any order), one three levels deep
TreeTwoKeys == Map(<<Entry(A, Map(<<Entry(B, Leaf(C))>>)), Entry(B, NilNode)>>)
\* a sequence at the root, with a leaf whose name holds a dot
TreeList == List(<<Leaf(AB), Map(<<Entry(A, Leaf(B))>>)>>)
\* a value that is neither string, sequence nor map below a key
TreeOther == Map(<<Entry(A, OtherNode)>>)

\* ------------------------------------------------------ configured identities
Ident(id, pass, aff, max) ==
    [ID |-> id, Pass |-> pass, Type |-> "user", Affiliation |-> aff,
     Attributes |-> {<<"hf.Revoker", "true">>}, MaxEnrollments |-> max]

\* the same id twice, with different secrets and affiliations
IdsDup == <<Ident("alice", "pw1", A, -1), Ident("alice", "pw2", AB, 0)>>
\* two ids, one with an affiliation no tree configures
IdsTwo == <<Ident("alice", "pw1", AB, 1), Ident("bob", "pw3", C, 2)>>
\* second identity asks for more than the registry allows
IdsOver == <<Ident("bob", "pw3", A, 1), Ident("alice", "pw1", A, 3)>>

\* ----------------------------------------------------------- configurations
Config(ldap, dbType, tls, blocking, max, ids, tree) ==
    [LDAP |-> ldap, DBType |-> dbType, TLS |-> tls, Blocking |-> blocking,
     MaxEnrollments |-> max, Identities |-> ids, Affiliations |-> tree]

\* What the environment of the server (its caller, the file system, the
\* database, the network) may do. Each behaviour is run under one set of
\* these, so that the failures of one component meet every state of that
\* component, and not every state of every other.
\*   "init"     the program calls Init(false) itself
\*   "renew"    the program calls Init(true)
\*   "restart"  the process ends and is started again
\*   "ca"       initca.New fails
\*   "write"    writeFile fails, before or after truncating the file
\*   "dbconn"   the database cannot be opened
\*   "ldap"     ldap.NewClient fails
\*   "io"       a registry call fails with an I/O error
\*   "signer"   universal.NewSigner fails on usable key material
\*   "handler"  a handler constructor or NewAuthWrapper fails, for one endpoint
\*   "handlers" they fail for any of the endpoints
\*   "tls"      tls.LoadX509KeyPair fails
\*   "listen"   net.Listen / tls.Listen fails
\*   "panic"    factory.InitFactories fails
\*   "accept"   Accept fails on an open listener
Scenario(c, f) == [cfg |-> c, env |-> f]

CfgPlain == Config(FALSE, "", FALSE, FALSE, 2, IdsDup, TreeNested)
CfgTLS == Config(FALSE, "sqlite3", TRUE, FALSE, 0, IdsTwo, TreeTwoKeys)
CfgBlocking == Config(FALSE, "postgres", FALSE, TRUE, 2, IdsTwo, TreeList)
CfgOther == Config(FALSE, "mysql", FALSE, FALSE, 2, IdsOver, TreeOther)
CfgBadDB == Config(FALSE, "oracle", FALSE, FALSE, 2, IdsDup, TreeNested)
CfgLDAP == Config(TRUE, "", FALSE, FALSE, 2, IdsDup, TreeNested)
CfgLDAPBlocking == Config(TRUE, "sqlite3", TRUE, TRUE, 0, IdsTwo, TreeList)

Scenarios ==
    { Scenario(CfgPlain, {"write", "ca", "restart"}),
      Scenario(CfgPlain, {"io"}),
      Scenario(CfgPlain, {"init", "renew"}),
      Scenario(CfgPlain, {"handler"}),
      Scenario(CfgTLS, {"tls", "listen", "signer", "dbconn"}),
      Scenario(CfgTLS, {"io", "restart"}),
      Scenario(CfgBlocking, {"accept", "io"}),
      Scenario(CfgOther, {"panic"}),
      Scenario(CfgBadDB, {"init"}),
      Scenario(CfgLDAP, {"ldap", "io"}),
      Scenario(CfgLDAPBlocking, {"restart"}) }

\* The directory's own content when LDAP is the user registry.
LDAPDirectory == {"alice"}

\* ------------------------------------------------------------------ state
VARIABLES
    cfg,            \* s.Config, fixed at construction
    env,            \* what the environment may do in this behaviour
    pc,             \* where the caller of Start / Init is
    op,             \* the API call running (or last run): "Start", "Init", "none"
    renew,          \* the renew argument of the running Init
    lastErr,        \* what the last call of Start, Init or Stop returned
    keyFile,        \* content of s.Config.CA.Keyfile: 0 missing, k the k-th key, -1 truncated
    certFile,       \* content of s.Config.CA.Certfile: 0 missing, k the cert of key k, -1 truncated
    nextKey,        \* the next key pair initca.New generates
    dbExists,       \* whether the database (file, schema) exists
    registry,       \* s.registry: "none", "db" (Accessor) or "ldap" (ldap client)
    users,          \* the users table of the local database
    affiliations,   \* the affiliations table of the local database
    userCalls,      \* the InsertUser calls issued, in order
    lookup,         \* how the last GetUser call of addIdentity ended
    groupCalls,     \* the InsertGroup calls issued, in order
    idx,            \* loadUsersTable's position in registry.Identities
    stack,          \* the call stack of loadAffiliationsTableR
    signer,         \* s.enrollSigner: "none" or "set"
    mux,            \* s.mux: the endpoints handled, each with its handler
    logged,         \* what registerHandlerLog logged last for each endpoint
    listener,       \* s.listener: 0 is nil, else the listener's number
    opened,         \* how many listeners were opened so far
    closed,         \* the listeners that are closed
    gor,            \* the executions of serve(), one per opened listener
    serveError,     \* s.serveError
    servedOn,       \* the listeners on which a request was served
    enrollments,    \* the enrollment counter of each identity of the users table
    certStore,      \* the certificate records the signer has persisted
    nextSerial,     \* the serial number the CA assigns next
    resp,           \* the last request handled and the response to it
    qConfigured,    \* quota function: the registry-configured max
    qRequested,     \* quota function: the requested max
    qResult         \* quota function: the result of the last application

lifeVars == <<pc, op, renew, lastErr, signer, mux, logged, listener, opened,
              closed, gor, serveError, servedOn>>
fileVars == <<keyFile, certFile, nextKey>>
dbVars == <<dbExists, registry, users, affiliations, userCalls, lookup,
            groupCalls>>
loadVars == <<idx, stack>>
enrollVars == <<enrollments, certStore, nextSerial, resp>>
quotaVars == <<qConfigured, qRequested, qResult>>
vars == <<cfg, env, lifeVars, fileVars, dbVars, loadVars, enrollVars, quotaVars>>

May(f) == f \in env

Endpoints == {"register", "enroll", "reenroll", "revoke", "tcert"}

\* The identity ids of the model.
Ids == {"alice", "bob", "carol"}

\* No request has been answered yet.
NoResp ==
    [ep |-> "", sig |-> "none", caller |-> "", status |-> "none", cert |-> 0]
NoGor == [st |-> "none", l |-> 0, mux |-> {}, main |-> FALSE]
NoResult == [val |-> 0, err |-> FALSE, applied |-> FALSE]

ServerInit ==
    /\ pc = "idle" /\ op = "none" /\ renew = FALSE
    /\ lastErr = "none"
    /\ keyFile = 0 /\ certFile = 0 /\ nextKey = 1
    /\ dbExists = FALSE /\ registry = "none"
    /\ users = {} /\ affiliations = {}
    /\ userCalls = <<>> /\ groupCalls = <<>> /\ lookup = "none"
    /\ idx = 0 /\ stack = <<>>
    /\ signer = "none" /\ mux = {}
    /\ logged = [e \in Endpoints |-> "none"]
    /\ listener = 0 /\ opened = 0 /\ closed = {}
    /\ gor = [k \in 1..MaxListeners |-> NoGor]
    /\ serveError = "nil" /\ servedOn = {}
    /\ enrollments = [id \in Ids |-> 0]
    /\ certStore = {} /\ nextSerial = 1 /\ resp = NoResp

Init ==
    /\ \E sc \in Scenarios : cfg = sc.cfg /\ env = sc.env
    /\ ServerInit
    /\ qConfigured = 0 /\ qRequested = 0 /\ qResult = NoResult

\* The running call returns the error e.
Fail(e) == pc' = "idle" /\ lastErr' = e

\* ------------------------------------------------------------ key material
\* util.FileExists: a truncated file exists too.
FileExists(f) == f # 0

\* writeFile's outcomes: written; failed before the file was opened (MkdirAll
\* or the open failed); failed after the open truncated it.
WriteOutcomes ==
    IF May("write") THEN {"ok", "untouched", "truncated"} ELSE {"ok"}
writeFile(old, buf, o) ==
    IF o = "ok" THEN buf ELSE IF o = "untouched" THEN old ELSE -1

\* Faulty variants of the guard below: one that returns early only while the
\* certificate is missing, one that returns early only on renewal.
KeyMaterialPresentCertMissing(rn, kf, cf) ==
    ~rn /\ FileExists(kf) /\ ~FileExists(cf)
KeyMaterialPresentRenewOnly(rn, kf, cf) == rn /\ FileExists(kf) /\ FileExists(cf)

\* The guard of initKeyMaterial's early return.
KeyMaterialPresent(rn, kf, cf) == ~rn /\ FileExists(kf) /\ FileExists(cf)

\* initKeyMaterial(renew), whole.
InitKeyMaterial ==
    /\ pc = "initKeyMaterial"
    /\ UNCHANGED <<cfg, env, op, renew, signer, mux, logged, listener, opened,
                   closed, gor, serveError, servedOn,
                   dbVars, loadVars, enrollVars, quotaVars>>
    /\ IF KeyMaterialPresent(renew, keyFile, certFile)
       THEN /\ pc' = "initDB"
            /\ UNCHANGED <<lastErr, fileVars>>
       ELSE \/ \* initca.New fails
               /\ May("ca")
               /\ Fail("Failed to initialize CA")
               /\ UNCHANGED fileVars
            \/ /\ nextKey <= MaxKeys
               /\ nextKey' = nextKey + 1
               /\ \E wk \in WriteOutcomes :
                     /\ keyFile' = writeFile(keyFile, nextKey, wk)
                     /\ IF wk # "ok"
                        THEN /\ Fail("Failed to store key")
                             /\ UNCHANGED certFile
                        ELSE \E wc \in WriteOutcomes :
                                /\ certFile' = writeFile(certFile, nextKey, wc)
                                /\ IF wc # "ok"
                                   THEN Fail("Failed to store certificate")
                                   ELSE pc' = "initDB" /\ UNCHANGED lastErr

\* ------------------------------------------------------------- Init, Start
\* Init(renew) called by the embedding program; initConfig, whose
\* factory.InitFactories failure panics.
InitCall ==
    /\ pc = "idle"
    /\ UNCHANGED <<cfg, env, signer, mux, logged, listener, opened,
                   closed, gor, serveError, servedOn,
                   fileVars, dbVars, loadVars, enrollVars, quotaVars>>
    /\ \E rn \in BOOLEAN :
          /\ May(IF rn THEN "renew" ELSE "init")
          /\ op' = "Init" /\ renew' = rn
          /\ lastErr' = "running"
          /\ \/ pc' = "initKeyMaterial"
             \/ May("panic") /\ pc' = "crashed"

\* A faulty variant: Start without the already-started check.
StartUnchecked ==
    /\ pc = "idle"
    /\ UNCHANGED <<cfg, env, signer, mux, logged, listener, opened, closed, gor,
                   servedOn, fileVars, dbVars, loadVars, enrollVars, quotaVars>>
    /\ serveError' = "nil"
    /\ op' = "Start" /\ renew' = FALSE
    /\ lastErr' = "running"
    /\ pc' = "initKeyMaterial"

\* Start up to the call of initKeyMaterial: the already-started check, then
\* Init(false)'s initConfig.
Start ==
    /\ pc = "idle"
    /\ UNCHANGED <<cfg, env, signer, mux, logged, listener, opened, closed, gor,
                   servedOn, fileVars, dbVars, loadVars, enrollVars, quotaVars>>
    /\ serveError' = "nil"
    /\ op' = "Start" /\ renew' = FALSE
    /\ IF listener # 0
       THEN Fail("server is already started")
       ELSE /\ lastErr' = "running"
            /\ \/ pc' = "initKeyMaterial"
               \/ May("panic") /\ pc' = "crashed"

\* ------------------------------------------------------------ quota policy
Granted(n) == [val |-> n, err |-> FALSE]
Rejected == [val |-> 0, err |-> TRUE]

\* A faulty variant: a request equal to the configured maximum is rejected.
getMaxEnrollmentsOffByOne(configuredMax, requestedMax) ==
    IF requestedMax < 0 THEN Granted(configuredMax)
    ELSE IF configuredMax = 0 THEN Granted(requestedMax)
    ELSE IF requestedMax = 0 /\ configuredMax # 0 THEN Rejected
    ELSE IF requestedMax >= configuredMax THEN Rejected
    ELSE Granted(requestedMax)

\* getMaxEnrollments, with s.Config.Registry.MaxEnrollments as a parameter.
getMaxEnrollments(configuredMax, requestedMax) ==
    IF requestedMax < 0 THEN Granted(configuredMax)
    ELSE IF configuredMax = 0 THEN Granted(requestedMax)
    ELSE IF requestedMax = 0 /\ configuredMax # 0 THEN Rejected
    ELSE IF requestedMax > configuredMax THEN Rejected
    ELSE Granted(requestedMax)

\* ------------------------------------------------------------ the registry
\* The I/O error a registry call may end with.
IOError == IF May("io") THEN {"ioerror"} ELSE {}

\* The ids the selected registry holds.
RegistryIds == IF registry = "ldap" THEN LDAPDirectory ELSE {u.Name : u \in users}

\* registry.GetUser(id, nil): the user, or a nil user with an error that is
\* either "not found" or an I/O error.
GetUserOutcomes(id) ==
    (IF id \in RegistryIds THEN {"found"} ELSE {"notfound"}) \cup IOError

\* registry.InsertUser(rec): the store rejects a duplicate id.
InsertUserOutcomes(id) ==
    (IF registry = "db" /\ id \in RegistryIds THEN {"duplicate"} ELSE {"ok"})
        \cup IOError

\* registry.InsertGroup(path, parentPath): success also when the affiliation
\* is there already.
InsertGroupOutcomes == {"ok"} \cup IOError

\* convertAttrs: the map's entries as api.Attribute values; the order of the
\* slice is that of Go's map iteration, so the slice is kept as a set.
convertAttrs(inAttrs) == {[Name |-> a[1], Value |-> a[2]] : a \in inAttrs}

\* A faulty variant: the record is built without MaxEnrollments, which Go
\* leaves at 0.
UserInfoWithoutMax(id, maxEnrollments) ==
    [Name |-> id.ID, Pass |-> id.Pass, Type |-> id.Type,
     Group |-> id.Affiliation, Attributes |-> convertAttrs(id.Attributes),
     MaxEnrollments |-> 0]

\* The spi.UserInfo addIdentity builds.
UserInfo(id, maxEnrollments) ==
    [Name |-> id.ID, Pass |-> id.Pass, Type |-> id.Type,
     Group |-> id.Affiliation, Attributes |-> convertAttrs(id.Attributes),
     MaxEnrollments |-> maxEnrollments]

UserCall(id, o) == [id |-> id, target |-> registry, res |-> o]

\* The part of addIdentity after the lookup found no user.
InsertIdentity(id, res) ==
    LET q == getMaxEnrollments(cfg.MaxEnrollments, id.MaxEnrollments) IN
    IF q.err
    THEN res = "err" /\ UNCHANGED <<users, userCalls>>
    ELSE \E o \in InsertUserOutcomes(id.ID) :
            /\ userCalls' = Append(userCalls, UserCall(id.ID, o))
            /\ users' = IF o = "ok" /\ registry = "db"
                        THEN users \cup {UserInfo(id, q.val)}
                        ELSE users
            /\ res = IF o = "ok" THEN "ok" ELSE "err"

\* addIdentity(id, errIfFound), returning res ("ok" for nil, "err" for an
\* error). The error of GetUser is dropped: a nil user is taken as not found.
addIdentity(id, errIfFound, res) ==
    \E g \in GetUserOutcomes(id.ID) :
       /\ lookup' = g
       /\ IF g = "found"
          THEN /\ res = IF errIfFound THEN "err" ELSE "ok"
               /\ UNCHANGED <<users, userCalls>>
          ELSE InsertIdentity(id, res)

\* ------------------------------------------------------------------ initDB
\* db.Type after initDB's default.
DBType == IF cfg.DBType = "" THEN "sqlite3" ELSE cfg.DBType

\* initUserRegistry's choice.
SelectedRegistry == IF cfg.LDAP THEN "ldap" ELSE "db"

\* initDB up to the bootstrap: the connection, the certificate accessor,
\* initUserRegistry and the test of exists.
InitDB ==
    /\ pc = "initDB"
    /\ UNCHANGED <<cfg, env, op, renew, signer, mux, logged, listener, opened,
                   closed, gor, serveError, servedOn,
                   fileVars, users, affiliations, userCalls, lookup, groupCalls,
                   stack, enrollVars, quotaVars>>
    /\ IF DBType \notin {"sqlite3", "postgres", "mysql"}
       THEN /\ Fail("Invalid db.type in config file")
            /\ UNCHANGED <<dbExists, registry, idx>>
       ELSE \/ \* dbutil.NewUserRegistry* fails to connect
               /\ May("dbconn")
               /\ Fail("Failed to connect to database")
               /\ UNCHANGED <<dbExists, registry, idx>>
            \/ /\ dbExists' = TRUE
               /\ registry' = SelectedRegistry
               /\ \/ \* ldap.NewClient fails
                     /\ cfg.LDAP /\ May("ldap")
                     /\ Fail("Failed to create LDAP client")
                     /\ UNCHANGED idx
                  \/ IF ~dbExists
                     THEN pc' = "loadUsersTable" /\ idx' = 1 /\ UNCHANGED lastErr
                     ELSE pc' = "initEnrollmentSigner" /\ UNCHANGED <<lastErr, idx>>

\* One iteration of loadUsersTable's loop, or its return.
LoadUsersTable ==
    /\ pc = "loadUsersTable"
    /\ UNCHANGED <<cfg, env, op, renew, signer, mux, logged, listener, opened,
                   closed, gor, serveError, servedOn,
                   fileVars, dbExists, registry, affiliations, groupCalls,
                   enrollVars, quotaVars>>
    /\ IF idx > Len(cfg.Identities)
       THEN /\ pc' = "loadAffiliationsTable"
            /\ stack' = <<[val |-> cfg.Affiliations, parent |-> EmptyStr,
                           todo |-> DOMAIN cfg.Affiliations.kids]>>
            /\ UNCHANGED <<lastErr, idx, users, userCalls, lookup>>
       ELSE \E res \in {"ok", "err"} :
               /\ addIdentity(cfg.Identities[idx], FALSE, res)
               /\ UNCHANGED stack
               /\ IF res = "ok"
                  THEN pc' = pc /\ idx' = idx + 1 /\ UNCHANGED lastErr
                  ELSE Fail("Failed to load users table") /\ UNCHANGED idx

\* --------------------------------------------------- loadAffiliationsTableR
\* A frame of the recursion: the node, the parent path it was called with,
\* and the elements of the node its loop has not yet visited.
Frame(val, parent) == [val |-> val, parent |-> parent, todo |-> DOMAIN val.kids]

Min(S) == CHOOSE x \in S : \A y \in S : x <= y

\* The elements the loop of frame f may visit next: a slice is ranged over in
\* order, a map in any order.
NextElements(f) ==
    IF f.todo = {} THEN {0}
    ELSE IF f.val.k = "list" THEN {Min(f.todo)}
    ELSE IF f.val.k = "map" THEN f.todo
    ELSE {0}

GroupInsert(path, parent) == [path |-> path, parent |-> parent]
Visited(f, i) == [f EXCEPT !.todo = f.todo \ {i}]
NoStep == [calls |-> <<>>, next |-> <<>>, panic |-> FALSE]

\* A faulty variant of the step below: a map key is recursed into without
\* being inserted itself.
loadAffiliationsTableRSkipsKeys(f, i) ==
    CASE f.val.k = "nil" -> NoStep
      [] f.val.k = "string" ->
           [NoStep EXCEPT !.calls =
               <<GroupInsert(affiliationPath(f.val.name, f.parent), f.parent)>>]
      [] f.val.k = "list" ->
           IF i = 0 THEN NoStep
           ELSE [NoStep EXCEPT !.next =
                    <<Frame(f.val.kids[i], f.parent), Visited(f, i)>>]
      [] f.val.k = "map" ->
           IF i = 0 THEN NoStep
           ELSE LET path == affiliationPath(f.val.kids[i].key, f.parent) IN
                [NoStep EXCEPT !.next =
                    <<Frame(f.val.kids[i].val, path), Visited(f, i)>>]
      [] OTHER -> [NoStep EXCEPT !.panic = TRUE]

\* What loadAffiliationsTableR does next in frame f, visiting element i (0
\* when the frame has none left): the addAffiliation call it makes, and the
\* frames that replace f when that call succeeds (none: f returns nil).
loadAffiliationsTableR(f, i) ==
    CASE f.val.k = "nil" -> NoStep
      [] f.val.k = "string" ->
           [NoStep EXCEPT !.calls =
               <<GroupInsert(affiliationPath(f.val.name, f.parent), f.parent)>>]
      [] f.val.k = "list" ->
           IF i = 0 THEN NoStep
           ELSE [NoStep EXCEPT !.next =
                    <<Frame(f.val.kids[i], f.parent), Visited(f, i)>>]
      [] f.val.k = "map" ->
           IF i = 0 THEN NoStep
           ELSE LET path == affiliationPath(f.val.kids[i].key, f.parent) IN
                [NoStep EXCEPT
                    !.calls = <<GroupInsert(path, f.parent)>>,
                    !.next = <<Frame(f.val.kids[i].val, path), Visited(f, i)>>]
      [] OTHER -> [NoStep EXCEPT !.panic = TRUE]

GroupCall(c, o) ==
    [path |-> c.path, parent |-> c.parent, target |-> registry, res |-> o]

\* addAffiliation: s.registry.InsertGroup(path, parentPath) with outcome o.
\* Only the database adapter stores the affiliation in the local table.
addAffiliation(c, o) ==
    /\ groupCalls' = Append(groupCalls, GroupCall(c, o))
    /\ affiliations' = IF o = "ok" /\ registry = "db"
                       THEN affiliations \cup {c.path}
                       ELSE affiliations

\* One step of loadAffiliationsTable: the next addAffiliation call or return
\* of the recursion; with the stack empty, initDB's return.
LoadAffiliationsTable ==
    /\ pc = "loadAffiliationsTable"
    /\ UNCHANGED <<cfg, env, op, renew, signer, mux, logged, listener, opened,
                   closed, gor, serveError, servedOn,
                   fileVars, dbExists, registry, users, userCalls, lookup, idx,
                   enrollVars, quotaVars>>
    /\ IF stack = <<>>
       THEN /\ pc' = "initEnrollmentSigner"
            /\ UNCHANGED <<lastErr, stack, affiliations, groupCalls>>
       ELSE \E i \in NextElements(Head(stack)) :
               LET step == loadAffiliationsTableR(Head(stack), i) IN
               IF step.panic
               THEN /\ pc' = "crashed"
                    /\ UNCHANGED <<lastErr, stack, affiliations, groupCalls>>
               ELSE IF step.calls = <<>>
               THEN /\ stack' = step.next \o Tail(stack)
                    /\ UNCHANGED <<pc, lastErr, affiliations, groupCalls>>
               ELSE \E o \in InsertGroupOutcomes :
                       /\ addAffiliation(step.calls[1], o)
                       /\ IF o = "ok"
                          THEN /\ stack' = step.next \o Tail(stack)
                               /\ UNCHANGED <<pc, lastErr>>
                          ELSE /\ Fail("Failed to load affiliations table")
                               /\ stack' = <<>>

\* ---------------------------------------------------- initEnrollmentSigner
\* universal.NewSigner reads the key and the certificate file: it cannot
\* succeed unless they hold a key and the certificate of that key.
UsableKeyMaterial == keyFile > 0 /\ certFile = keyFile

\* initEnrollmentSigner, whole; then Init's return, and for Start the TEMP
\* assignments of the file names.
InitEnrollmentSigner ==
    /\ pc = "initEnrollmentSigner"
    /\ UNCHANGED <<cfg, env, op, renew, mux, logged, listener, opened,
                   closed, gor, serveError, servedOn,
                   fileVars, dbVars, loadVars, enrollVars, quotaVars>>
    /\ \/ \* policy.OverrideRemotes or universal.NewSigner fails
          /\ May("signer") \/ ~UsableKeyMaterial
          /\ signer' = "none"
          /\ Fail("Failed initializing enrollment signer")
       \/ /\ UsableKeyMaterial
          /\ signer' = "set"
          /\ IF op = "Init"
             THEN pc' = "idle" /\ lastErr' = "ok"
             ELSE pc' = "registerHandlers" /\ UNCHANGED lastErr

\* --------------------------------------------------------- registerHandlers
\* What getHandler and NewAuthWrapper return for an endpoint.
HandlerOutcomes == {"ok", "getHandler fails", "NewAuthWrapper fails"}

Wired(path, wrapped) == [path |-> path, wrapped |-> wrapped]

\* A faulty variant: the error of getHandler is not returned, and the
\* endpoint is handled all the same.
registerHandlerNoReturn(path, o) ==
    IF o = "NewAuthWrapper fails" THEN {} ELSE {Wired(path, TRUE)}

\* A faulty variant: the handler is put into the mux without NewAuthWrapper.
registerHandlerUnwrapped(path, o) ==
    IF o = "getHandler fails" THEN {} ELSE {Wired(path, FALSE)}

\* registerHandler(path, getHandler): what it adds to s.mux.
registerHandler(path, o) ==
    IF o = "getHandler fails" THEN {}
    ELSE IF o = "NewAuthWrapper fails" THEN {}
    ELSE {Wired(path, TRUE)}

\* The error registerHandler(path, getHandler) returns.
registerHandlerErr(path, o) ==
    IF o = "getHandler fails" THEN "is disabled"
    ELSE IF o = "NewAuthWrapper fails" THEN "has been disabled"
    ELSE "nil"

\* registerHandlerLog: the line it logs for the endpoint.
registerHandlerLog(path, o) ==
    IF registerHandlerErr(path, o) # "nil"
    THEN registerHandlerErr(path, o)
    ELSE "is enabled"

\* What the five constructors and the wrapper return in one run of
\* registerHandlers: all succeed; or one endpoint fails in either way; or
\* each endpoint fails or not, in either way, whatever the others do.
HandlerResults ==
    IF May("handlers") THEN [Endpoints -> HandlerOutcomes]
    ELSE {[e \in Endpoints |-> "ok"]} \cup
         IF May("handler")
         THEN {[e \in Endpoints |-> IF e = x THEN o ELSE "ok"] :
                  x \in {"tcert", "revoke"}, o \in HandlerOutcomes \ {"ok"}}
         ELSE {}

\* registerHandlers: a new mux, and registerHandlerLog for the five endpoints.
RegisterHandlers ==
    /\ pc = "registerHandlers"
    /\ UNCHANGED <<cfg, env, op, renew, lastErr, signer, listener, opened,
                   closed, gor, serveError, servedOn,
                   fileVars, dbVars, loadVars, enrollVars, quotaVars>>
    /\ \E o \in HandlerResults :
          /\ mux' = UNION {registerHandler(e, o[e]) : e \in Endpoints}
          /\ logged' = [e \in Endpoints |-> registerHandlerLog(e, o[e])]
    /\ pc' = "listenAndServe"

\* ------------------------------------------------------------ listenAndServe
Spawned(blocking) == [st |-> "spawned", l |-> 0, mux |-> {}, main |-> blocking]

\* A faulty variant: the listener is opened and assigned before the TLS key
\* pair is loaded.
ListenAndServeListenFirst ==
    /\ pc = "listenAndServe"
    /\ UNCHANGED <<cfg, env, op, renew, signer, mux, logged, closed,
                   serveError, servedOn, fileVars, dbVars, loadVars, enrollVars, quotaVars>>
    /\ opened < MaxListeners
    /\ opened' = opened + 1
    /\ listener' = opened + 1
    /\ \/ /\ cfg.TLS /\ May("tls")
          /\ Fail("Failed to load TLS key pair")
          /\ UNCHANGED gor
       \/ /\ gor' = [gor EXCEPT ![opened + 1] = Spawned(cfg.Blocking)]
          /\ IF cfg.Blocking
             THEN pc' = "blocked" /\ UNCHANGED lastErr
             ELSE pc' = "idle" /\ lastErr' = "ok"

\* listenAndServe, whole: in blocking mode the caller goes on into serve().
ListenAndServe ==
    /\ pc = "listenAndServe"
    /\ UNCHANGED <<cfg, env, op, renew, signer, mux, logged, closed,
                   serveError, servedOn, fileVars, dbVars, loadVars, enrollVars, quotaVars>>
    /\ \/ \* tls.LoadX509KeyPair fails
          /\ cfg.TLS /\ May("tls")
          /\ Fail("Failed to load TLS key pair")
          /\ UNCHANGED <<listener, opened, gor>>
       \/ \* tls.Listen or net.Listen fails
          /\ May("listen")
          /\ Fail("listen failed")
          /\ UNCHANGED <<listener, opened, gor>>
       \/ /\ opened < MaxListeners
          /\ opened' = opened + 1
          /\ listener' = opened + 1
          /\ gor' = [gor EXCEPT ![opened + 1] = Spawned(cfg.Blocking)]
          /\ IF cfg.Blocking
             THEN pc' = "blocked" /\ UNCHANGED lastErr
             ELSE pc' = "idle" /\ lastErr' = "ok"

\* --------------------------------------------------------------------- serve
\* serve() calls http.Serve(s.listener, s.mux): both fields are read when the
\* call is made. http.Serve on a nil listener panics.
ServeBegin(k) ==
    /\ gor[k].st = "spawned"
    /\ UNCHANGED <<cfg, env, op, renew, lastErr, signer, mux, logged, listener,
                   opened, closed, serveError, servedOn,
                   fileVars, dbVars, loadVars, enrollVars, quotaVars>>
    /\ IF listener = 0
       THEN pc' = "crashed" /\ UNCHANGED gor
       ELSE /\ gor' = [gor EXCEPT ![k] = [@ EXCEPT !.st = "serving",
                                                  !.l = listener, !.mux = mux]]
            /\ UNCHANGED pc

\* http.Serve accepts a connection on an open listener and hands the request
\* to the handler the mux holds for its path.
ServeRequest(k) ==
    /\ gor[k].st = "serving"
    /\ gor[k].l \notin closed
    /\ pc # "crashed"
    /\ \E h \in gor[k].mux : servedOn' = servedOn \cup {gor[k].l}
    /\ UNCHANGED <<cfg, env, pc, op, renew, lastErr, signer, mux, logged, listener,
                   opened, closed, gor, serveError,
                   fileVars, dbVars, loadVars, enrollVars, quotaVars>>

\* http.Serve returns: Accept failed, as it does on a closed listener.
ServeReturn(k) ==
    /\ gor[k].st = "serving"
    /\ gor[k].l \in closed \/ May("accept")
    /\ pc # "crashed"
    /\ serveError' = "accept failed"
    /\ gor' = [gor EXCEPT ![k].st = "returned"]
    /\ UNCHANGED <<cfg, env, pc, op, renew, lastErr, signer, mux, logged, listener,
                   opened, closed, servedOn,
                   fileVars, dbVars, loadVars, enrollVars, quotaVars>>

\* The rest of serve(): close and clear s.listener if it is set; in blocking
\* mode Start then returns the serve error.
ServeEnd(k) ==
    /\ gor[k].st = "returned"
    /\ pc # "crashed"
    /\ gor' = [gor EXCEPT ![k] = NoGor]
    /\ IF listener # 0
       THEN closed' = closed \cup {listener} /\ listener' = 0
       ELSE UNCHANGED <<closed, listener>>
    /\ IF gor[k].main
       THEN pc' = "idle" /\ lastErr' = serveError
       ELSE UNCHANGED <<pc, lastErr>>
    /\ UNCHANGED <<cfg, env, op, renew, signer, mux, logged, opened,
                   serveError, servedOn, fileVars, dbVars, loadVars, enrollVars, quotaVars>>

\* ---------------------------------------------------------------------- Stop
\* Stop, called between calls of Start, or from another thread while a
\* blocking Start serves.
Stop ==
    /\ pc \in {"idle", "blocked"}
    /\ IF listener = 0
       THEN /\ lastErr' = "server is not currently started"
            /\ UNCHANGED <<closed, listener>>
       ELSE /\ lastErr' = "nil"
            /\ closed' = closed \cup {listener}
            /\ listener' = 0
    /\ UNCHANGED <<cfg, env, pc, op, renew, signer, mux, logged, opened,
                   gor, serveError, servedOn,
                   fileVars, dbVars, loadVars, enrollVars, quotaVars>>

\* The process ends (it returned or it panicked) and the server is run again
\* on the same files and database: a new Server value, every listener of the
\* old process closed.
Restart ==
    /\ pc \in {"idle", "crashed"}
    /\ May("restart") \/ pc = "crashed"
    /\ op # "none"
    /\ pc' = "idle" /\ op' = "none" /\ renew' = FALSE
    /\ lastErr' = "none"
    /\ registry' = "none" /\ idx' = 0 /\ stack' = <<>>
    /\ signer' = "none" /\ mux' = {}
    /\ logged' = [e \in Endpoints |-> "none"]
    /\ listener' = 0
    /\ closed' = 1..opened
    /\ gor' = [k \in 1..MaxListeners |-> NoGor]
    /\ serveError' = "nil"
    /\ UNCHANGED <<cfg, env, opened, servedOn, fileVars, dbExists, users,
                   affiliations, userCalls, lookup, groupCalls, enrollVars, quotaVars>>

Next ==
    \/ InitCall
    \/ Start
    \/ InitKeyMaterial
    \/ InitDB
    \/ LoadUsersTable
    \/ LoadAffiliationsTable
    \/ InitEnrollmentSigner
    \/ RegisterHandlers
    \/ ListenAndServe
    \/ \E k \in 1..MaxListeners : ServeBegin(k)
    \/ \E k \in 1..MaxListeners : ServeRequest(k)
    \/ \E k \in 1..MaxListeners : ServeReturn(k)
    \/ \E k \in 1..MaxListeners : ServeEnd(k)
    \/ Stop
    \/ Restart

Spec == Init /\ [][Next]_vars

\* ------------------------------------------------- request authentication
\* The request bodies: the body of a register request names the identity to
\* register, that of a revoke request the serial number to revoke.
Bodies == {1, 2}

\* The digest of a request body.
Digest(b) == (31 * b + 7) % 101

\* The payload a token signs: the presented certificate and the body digest.
TokenPayload(cert, body) == <<cert, Digest(body)>>

\* A signature made with the private key of `key` over a payload.
Sign(key, payload) == [key |-> key, payload |-> payload]

BasicAuth(user, pass) ==
    [kind |-> "basic", user |-> user, pass |-> pass, cert |-> 0,
     key |-> "", signed |-> 0]
\* A token: a certificate and a signature that `key` made over `signed`.
Token(cert, key, signed) ==
    [kind |-> "token", user |-> "", pass |-> "", cert |-> cert,
     key |-> key, signed |-> signed]

\* What a client may send: basic credentials, or a token presenting an
\* issued certificate (or certificate 0, which this CA did not issue).
Auths ==
    {BasicAuth(u, p) : u \in {"alice", "bob"}, p \in {"pw1", "pw3"}} \cup
    {Token(c, k, b) : c \in 0..(nextSerial - 1),
                      k \in {"alice", "bob", "mallory"}, b \in Bodies}

Issued(serial) == \E c \in certStore : c.serial = serial
CertOwner(serial) == (CHOOSE c \in certStore : c.serial = serial).id

\* The token's signature verifies against the public key of the presented
\* certificate and the digest of the body received.
VerifyToken(body, auth) ==
    /\ Issued(auth.cert)
    /\ Sign(auth.key, TokenPayload(auth.cert, auth.signed))
          = Sign(CertOwner(auth.cert), TokenPayload(auth.cert, body))

\* How the signature of a request stands against the certificate it presents
\* and the body received: "none" for a request that carries no token.
SignatureCheck(body, auth) ==
    IF auth.kind # "token" THEN "none"
    ELSE IF ~Issued(auth.cert) THEN "unknown certificate"
    ELSE IF auth.key # CertOwner(auth.cert) THEN "wrong key"
    ELSE IF Digest(auth.signed) # Digest(body) THEN "wrong digest"
    ELSE "ok"

\* The caller the authentication wrapper resolves for a request, "" when it
\* rejects the request: enroll takes basic credentials, checked against the
\* registry; every other endpoint takes a token.
Authenticate(ep, body, auth) ==
    IF ep = "enroll"
    THEN IF auth.kind = "basic"
            /\ \E u \in users : u.Name = auth.user /\ u.Pass = auth.pass
         THEN auth.user ELSE ""
    ELSE IF auth.kind = "token" /\ VerifyToken(body, auth)
         THEN CertOwner(auth.cert) ELSE ""

\* The identity a request names, whether or not it proves it: what a handler
\* reached without the wrapper would act on.
ClaimedCaller(auth) ==
    IF auth.kind = "basic" THEN auth.user
    ELSE IF Issued(auth.cert) THEN CertOwner(auth.cert) ELSE "alice"

\* ------------------------------------------------------ endpoint handlers
User(id) == CHOOSE u \in users : u.Name = id
HasAttribute(id, name) ==
    \E u \in users : u.Name = id /\ \E a \in u.Attributes : a.Name = name

\* The answer to a request; cert is the serial number of the certificate a
\* successful enroll or reenroll returns, 0 in every other answer.
Response(ep, sig, caller, status) ==
    [ep |-> ep, sig |-> sig, caller |-> caller, status |-> status,
     cert |-> IF ep \in {"enroll", "reenroll"} /\ status = "ok"
              THEN nextSerial ELSE 0]

\* The identities a register request may name.
RegisterRequests ==
    <<Ident("carol", "pw9", AB, 3), Ident("bob", "pw3", A, 1)>>

CertRecord(id) ==
    [serial |-> nextSerial, aki |-> keyFile, id |-> id, status |-> "valid"]

IssueCertificate(caller) ==
    /\ nextSerial <= MaxSerial
    /\ certStore' = certStore \cup {CertRecord(caller)}
    /\ nextSerial' = nextSerial + 1
    /\ enrollments' = [enrollments EXCEPT ![caller] = @ + 1]
    /\ UNCHANGED <<users, userCalls, lookup>>

\* enroll and reenroll: over quota when the identity's counter has reached
\* its cap (0 is no cap); else one certificate is signed, its record is
\* persisted and the counter goes up by one.
Enroll(caller) ==
    IF caller \notin {u.Name : u \in users}
    THEN UNCHANGED <<users, userCalls, lookup, enrollments, certStore, nextSerial>>
    ELSE IF User(caller).MaxEnrollments # 0
            /\ enrollments[caller] >= User(caller).MaxEnrollments
    THEN UNCHANGED <<users, userCalls, lookup, enrollments, certStore, nextSerial>>
    ELSE IssueCertificate(caller)

EnrollStatus(caller) ==
    IF caller \notin {u.Name : u \in users} THEN "unknown identity"
    ELSE IF User(caller).MaxEnrollments # 0
            /\ enrollments[caller] >= User(caller).MaxEnrollments
    THEN "over quota"
    ELSE "ok"

\* The handler of endpoint ep, run for an authenticated caller.
Handler(ep, body, sig, caller) ==
    CASE ep \in {"enroll", "reenroll"} ->
           /\ Enroll(caller)
           /\ resp' = Response(ep, sig, caller, EnrollStatus(caller))
      [] ep = "register" ->
           IF ~HasAttribute(caller, "hf.Registrar.Roles")
           THEN /\ resp' = Response(ep, sig, caller, "not authorized")
                /\ UNCHANGED <<users, userCalls, lookup, enrollments, certStore, nextSerial>>
           ELSE \E res \in {"ok", "err"} :
                   /\ addIdentity(RegisterRequests[body], TRUE, res)
                   /\ resp' = Response(ep, sig, caller,
                                       IF res = "ok" THEN "ok" ELSE "rejected")
                   /\ UNCHANGED <<enrollments, certStore, nextSerial>>
      [] ep = "revoke" ->
           IF ~HasAttribute(caller, "hf.Revoker") \/ ~Issued(body)
           THEN /\ resp' = Response(ep, sig, caller, "rejected")
                /\ UNCHANGED <<users, userCalls, lookup, enrollments, certStore, nextSerial>>
           ELSE /\ certStore' = {IF c.serial = body
                                 THEN [c EXCEPT !.status = "revoked"] ELSE c :
                                 c \in certStore}
                /\ resp' = Response(ep, sig, caller, "ok")
                /\ UNCHANGED <<users, userCalls, lookup, enrollments, nextSerial>>
      [] OTHER ->
           /\ resp' = Response(ep, sig, caller, "ok")
           /\ UNCHANGED <<users, userCalls, lookup, enrollments, certStore, nextSerial>>

\* http.Serve hands a request for endpoint ep to the handler the mux holds:
\* the authentication wrapper, which runs the endpoint's handler only for a
\* caller it has resolved.
Handle(k, ep) ==
    /\ gor[k].st = "serving"
    /\ gor[k].l \notin closed
    /\ pc # "crashed"
    /\ servedOn' = servedOn \cup {gor[k].l}
    /\ \E h \in gor[k].mux : \E body \in Bodies : \E auth \in Auths :
          /\ h.path = ep
          /\ LET sig == SignatureCheck(body, auth)
                 caller == IF h.wrapped THEN Authenticate(ep, body, auth)
                           ELSE ClaimedCaller(auth)
             IN IF caller = ""
                THEN /\ resp' = Response(ep, sig, "",
                                         "authentication error")
                     /\ UNCHANGED <<users, userCalls, lookup, enrollments, certStore,
                                    nextSerial>>
                ELSE Handler(ep, body, sig, caller)
    /\ UNCHANGED <<cfg, env, pc, op, renew, lastErr, signer, mux, logged, listener,
                   opened, closed, gor, serveError, fileVars, dbExists,
                   registry, affiliations, groupCalls, loadVars, quotaVars>>

HandleRegister(k) == Handle(k, "register")
HandleEnroll(k) == Handle(k, "enroll")
HandleReenroll(k) == Handle(k, "reenroll")
HandleRevoke(k) == Handle(k, "revoke")
HandleTCert(k) == Handle(k, "tcert")

\* -------------------------------------------- one start, then the requests
IdsEnroll ==
    <<[Ident("alice", "pw1", A, -1) EXCEPT !.Attributes =
          {<<"hf.Registrar.Roles", "user">>, <<"hf.Revoker", "true">>}],
      Ident("bob", "pw3", AB, 1)>>
CfgEnroll == Config(FALSE, "", FALSE, FALSE, 2, IdsEnroll, TreeNested)
CfgEnrollUnlimited == Config(FALSE, "", FALSE, FALSE, 0, IdsEnroll, TreeNested)

EnrollInit ==
    /\ cfg \in {CfgEnroll, CfgEnrollUnlimited} /\ env = {}
    /\ ServerInit
    /\ qConfigured = 0 /\ qRequested = 0 /\ qResult = NoResult

\* The server is started, and serves requests.
EnrollNext ==
    \/ Start
    \/ InitKeyMaterial
    \/ InitDB
    \/ LoadUsersTable
    \/ LoadAffiliationsTable
    \/ InitEnrollmentSigner
    \/ RegisterHandlers
    \/ ListenAndServe
    \/ \E k \in 1..MaxListeners : ServeBegin(k)
    \/ \E k \in 1..MaxListeners : HandleRegister(k)
    \/ \E k \in 1..MaxListeners : HandleEnroll(k)
    \/ \E k \in 1..MaxListeners : HandleReenroll(k)
    \/ \E k \in 1..MaxListeners : HandleRevoke(k)
    \/ \E k \in 1..MaxListeners : HandleTCert(k)

SpecEnroll == EnrollInit /\ [][EnrollNext]_vars

\* ------------------------------------- one start, any constructor failing
HandlersInit ==
    /\ cfg \in {CfgPlain, CfgBlocking} /\ env = {"handlers"}
    /\ ServerInit
    /\ qConfigured = 0 /\ qRequested = 0 /\ qResult = NoResult

\* The server is started once and serves.
HandlersNext ==
    \/ Start
    \/ InitKeyMaterial
    \/ InitDB
    \/ LoadUsersTable
    \/ LoadAffiliationsTable
    \/ InitEnrollmentSigner
    \/ RegisterHandlers
    \/ ListenAndServe
    \/ \E k \in 1..MaxListeners : ServeBegin(k)
    \/ \E k \in 1..MaxListeners : ServeRequest(k)

SpecHandlers == HandlersInit /\ [][HandlersNext]_vars


\* The quota policy applied to one pair drawn from a bounded range.
QuotaInit ==
    /\ cfg = CfgPlain /\ env = {}
    /\ ServerInit
    /\ qConfigured \in -1..MaxConfigured
    /\ qRequested \in -2..MaxRequested
    /\ qResult = NoResult

ApplyQuota ==
    /\ ~qResult.applied
    /\ LET r == getMaxEnrollments(qConfigured, qRequested) IN
       qResult' = [val |-> r.val, err |-> r.err, applied |-> TRUE]
    /\ UNCHANGED <<cfg, env, lifeVars, fileVars, dbVars, loadVars,
                   enrollVars, qConfigured, qRequested>>

QuotaNext == ApplyQuota

SpecQuota == QuotaInit /\ [][QuotaNext]_vars

\* ===================================================================== claims
QuotaGranted(n) == qResult.val = n /\ ~qResult.err
QuotaRejected == qResult.err

\* C1: for a registry-configured max C >= 0 and a requested max R,
\* getMaxEnrollments returns the quota table's outcome: C=0, R<0 gives 0
\* (unlimited); C=0, R>=0 gives R; C>0, R<0 gives C; C>0, R=0 is rejected;
\* C>0, R>C is rejected; C>0, 1<=R<=C gives R.
C1_QuotaTable ==
    (qResult.applied /\ qConfigured >= 0) =>
        /\ (qConfigured = 0 /\ qRequested < 0) => QuotaGranted(0)
        /\ (qConfigured = 0 /\ qRequested >= 0) => QuotaGranted(qRequested)
        /\ (qConfigured > 0 /\ qRequested < 0) => QuotaGranted(qConfigured)
        /\ (qConfigured > 0 /\ qRequested = 0) => QuotaRejected
        /\ (qConfigured > 0 /\ qRequested > qConfigured) => QuotaRejected
        /\ (qConfigured > 0 /\ qRequested >= 1 /\ qRequested <= qConfigured)
              => QuotaGranted(qRequested)

\* C1 witness: the function was applied to a request equal to a positive
\* configured max, and granted it.
C1_Witness ==
    /\ qResult.applied
    /\ qConfigured = 3 /\ qRequested = 3
    /\ QuotaGranted(3)

\* C2: in the sequence of InsertGroup calls of loadAffiliationsTable, every
\* call with a non-empty parent path comes after a successful InsertGroup
\* call for the affiliation whose path is that parent path; with the database
\* as registry, that parent is then in the affiliations table.
C2_ParentInsertedFirst ==
    \A i \in DOMAIN groupCalls :
        groupCalls[i].parent # EmptyStr =>
            /\ \E j \in 1..(i - 1) :
                  /\ groupCalls[j].path = groupCalls[i].parent
                  /\ groupCalls[j].res = "ok"
            /\ groupCalls[i].target = "db" =>
                  groupCalls[i].parent \in affiliations

\* C2 witness: an affiliation three levels deep was inserted.
C2_Witness ==
    \E i \in DOMAIN groupCalls :
        /\ groupCalls[i].path = <<"a", ".", "b", ".", "c">>
        /\ groupCalls[i].parent = AB
        /\ groupCalls[i].res = "ok"

\* C3: each identity stored in the registry has an affiliation that is in
\* the registry.
C3_IdentityAffiliationExists ==
    \A u \in users : u.Group \in affiliations

\* The certificate records of identity id.
CertsOf(id) == {c \in certStore : c.id = id}

\* An enroll or reenroll of identity id was answered in this step.
EnrollAnswered(id) ==
    /\ resp' # resp
    /\ resp'.ep \in {"enroll", "reenroll"}
    /\ resp'.caller = id

\* The cap addIdentity resolves for the i-th configured identity.
ResolvedCap(i) ==
    getMaxEnrollments(cfg.MaxEnrollments, cfg.Identities[i].MaxEnrollments).val

C5_BadSignatureRejected ==
    [][(resp' # resp /\ resp'.sig \notin {"none", "ok"})
       => /\ resp'.status = "authentication error"
          /\ users' = users
          /\ enrollments' = enrollments
          /\ certStore' = certStore]_vars

\* C5 witness: a revoke request presenting an issued certificate, signed
\* with its key over another body, was answered with an authentication
\* error while certificates are on record.
C5_Witness ==
    /\ resp.ep = "revoke" /\ resp.sig = "wrong digest"
    /\ resp.status = "authentication error"
    /\ \E c \in certStore : c.status = "valid"

\* C6: initKeyMaterial called with renew = false while the key file and the
\* certificate file both exist returns success, generates no key pair and
\* writes neither file.
C6_KeyMaterialIdempotent ==
    [][(pc = "initKeyMaterial" /\ ~renew
            /\ FileExists(keyFile) /\ FileExists(certFile))
        => /\ keyFile' = keyFile /\ certFile' = certFile /\ nextKey' = nextKey
           /\ lastErr' = lastErr
           /\ pc' \in {pc, "initDB", "crashed"}]_vars

\* C6 witness: a Start made after an earlier Start had opened a listener
\* has passed initKeyMaterial, and the files hold the one key pair that was
\* ever generated.
C6_Witness ==
    /\ pc = "initDB" /\ op = "Start" /\ opened >= 1
    /\ nextKey = 2 /\ keyFile = 1 /\ certFile = 1

\* C7 as claimed: once a key is in the key file, no step other than a
\* renewal puts a different key there.
C7_KeyNeverReplaced ==
    [][(keyFile > 0 /\ ~(pc = "initKeyMaterial" /\ renew))
        => ~(keyFile' > 0 /\ keyFile' # keyFile)]_vars

\* C7 as amended: once the key file and the certificate file both exist, no
\* step other than a renewal changes the key file or the certificate file.
C7_KeyKeptOnceBothExist ==
    [][(FileExists(keyFile) /\ FileExists(certFile)
            /\ ~(pc = "initKeyMaterial" /\ renew))
        => (keyFile' = keyFile /\ certFile' = certFile)]_vars

\* C7 witness: the first key was replaced after a failed start; the second
\* key and its certificate were stored, a listener was opened, and a later
\* Start has passed initKeyMaterial with the second key still there.
C7_Witness ==
    /\ pc = "initDB" /\ op = "Start" /\ opened >= 1
    /\ nextKey = 3 /\ keyFile = 2 /\ certFile = 2

\* C8: when loadUsersTable reaches an identity whose id the registry holds,
\* addIdentity issues no InsertUser, leaves the users table as it is,
\* returns no error, and the loop goes on to the next identity.
C8_ExistingIdentitySkipped ==
    [][(pc = "loadUsersTable" /\ idx <= Len(cfg.Identities)
            /\ cfg.Identities[idx].ID \in RegistryIds)
        => /\ userCalls' = userCalls /\ users' = users
           /\ lastErr' = lastErr
           /\ \/ pc' = "loadUsersTable" /\ idx' \in {idx, idx + 1}
              \/ pc' = "crashed"]_vars

\* C11: in the bootstrap load, an addIdentity whose GetUser call ended with a
\* transient I/O error issues no InsertUser, leaves the users table as it is
\* and makes loadUsersTable return an error; an InsertUser is issued only
\* after a GetUser call that ended with "not found".
C11_LookupErrorSurfaced ==
    [][(pc = "loadUsersTable" /\ idx <= Len(cfg.Identities))
        => /\ lookup' = "ioerror"
              => /\ userCalls' = userCalls /\ users' = users
                 /\ pc' = "idle" /\ lastErr' = "Failed to load users table"
           /\ userCalls' # userCalls => lookup' = "notfound"]_vars

\* The endpoints s.mux handles.
Handled(m) == {h.path : h \in m}

\* C12: for each endpoint, whatever the others do: when its constructor has
\* returned an error (logged as "is disabled") the mux does not handle it;
\* when nothing failed for it (logged as "is enabled") the mux handles it;
\* every handler in the mux and in a running serve is behind the
\* authentication wrapper; and registerHandlers never fails the start: the
\* start goes on to listenAndServe with no error.
C12_EndpointsWiredIndependently ==
    /\ [](\A e \in Endpoints :
             /\ logged[e] \in {"is disabled", "has been disabled"}
                   => e \notin Handled(mux)
             /\ logged[e] = "is enabled" => Wired(e, TRUE) \in mux)
    /\ [](/\ \A h \in mux : h.wrapped
          /\ \A k \in DOMAIN gor : \A h \in gor[k].mux : h.wrapped)
    /\ [][pc = "registerHandlers"
            => /\ pc' = "listenAndServe" /\ lastErr' = lastErr
               /\ \A e \in Endpoints : logged'[e] # "none"]_vars

\* C12 witness: the constructor of revoke failed and the wrapper of tcert
\* failed; the server started, handles exactly the other three endpoints
\* and has served a request.
C12_Witness ==
    /\ logged["revoke"] = "is disabled"
    /\ logged["tcert"] = "has been disabled"
    /\ Handled(mux) = {"register", "enroll", "reenroll"}
    /\ listener # 0 /\ servedOn # {}

\* The execution k of serve(), started by the Start that opened listener k,
\* runs the rest of serve() in this step.
ServeEnds(k) ==
    gor[k].st = "returned" /\ gor'[k].st = "none" /\ op' = op

\* C13: in non-blocking mode, the serve goroutine of the Start that opened
\* listener k closes no listener other than k, and clears s.listener only
\* when s.listener is listener k.
C13_ServeClosesOwnListener ==
    [][\A k \in 1..MaxListeners :
          (~cfg.Blocking /\ ServeEnds(k))
          => /\ closed' \ closed \subseteq {k}
             /\ listener' # listener => listener = k]_vars

\* Start or Init is between its first and its last statement.
Starting ==
    pc \in {"initKeyMaterial", "initDB", "loadUsersTable",
            "loadAffiliationsTable", "initEnrollmentSigner",
            "registerHandlers", "listenAndServe"}

\* C14: a listener is opened only by listenAndServe while s.listener is nil,
\* and becomes s.listener; no Start runs initialization, handler
\* registration or listen while s.listener is set: it returns "server is
\* already started" and leaves files, database, mux and listeners as they
\* are; Stop with s.listener nil returns "server is not currently started"
\* and changes nothing else; Stop with s.listener set closes that listener,
\* leaves s.listener nil and returns the result of Close; and a Start made
\* while s.listener is nil is accepted.
C14_AtMostOneListener ==
    /\ [][opened' # opened
            => /\ pc = "listenAndServe" /\ listener = 0
               /\ opened' = opened + 1 /\ listener' = opened']_vars
    /\ []((Starting /\ op = "Start") => listener = 0)
    /\ [][(lastErr' = "server is already started" /\ lastErr' # lastErr)
            => /\ listener # 0 /\ pc' = "idle"
               /\ UNCHANGED <<listener, opened, closed, gor, mux, logged,
                              signer, fileVars, dbVars, loadVars>>]_vars
    /\ [][(lastErr' = "server is not currently started" /\ lastErr' # lastErr)
            => /\ listener = 0
               /\ UNCHANGED <<pc, op, renew, signer, mux, logged, listener,
                              opened, closed, gor, serveError, servedOn,
                              fileVars, dbVars, loadVars>>]_vars
    /\ [][(listener # 0 /\ listener' # listener /\ gor' = gor /\ op' = op)
            => /\ listener' = 0 /\ closed' = closed \cup {listener}
               /\ lastErr' = "nil"]_vars
    /\ [][(pc = "idle" /\ listener = 0 /\ op' = "Start"
               /\ (op # "Start" \/ lastErr' # lastErr))
            => lastErr' # "server is already started"]_vars

\* C14 witness: the server was started, stopped and started again; a third
\* Start was refused as already started, with the second listener the only
\* one open.
C14_Witness ==
    /\ pc = "idle" /\ lastErr = "server is already started"
    /\ opened = 2 /\ listener = 2 /\ closed = {1}

\* C9: with LDAP selected, no InsertGroup is issued to the directory adapter.
C9_NoGroupInsertToDirectory ==
    cfg.LDAP => \A i \in DOMAIN groupCalls : groupCalls[i].target # "ldap"

FatalStartErrors ==
    {"Failed to initialize CA", "Failed to store key",
     "Failed to store certificate", "Failed to connect to database",
     "Invalid db.type in config file",
     "Failed initializing enrollment signer", "Failed to load TLS key pair"}

\* C10: when Start has returned a fatal startup error, s.listener is nil and
\* every listener ever opened is closed: that Start opened none, and no
\* request can be served.
C10_FailedStartServesNothing ==
    (pc = "idle" /\ op = "Start" /\ lastErr \in FatalStartErrors) =>
        /\ listener = 0
        /\ \A l \in 1..opened : l \in closed
        /\ \A k \in DOMAIN gor : gor[k].st = "serving" => gor[k].l \in closed

\* C10 witness: a Start failed on the TLS key pair after an earlier Start
\* had served.
C10_Witness ==
    /\ pc = "idle" /\ op = "Start"
    /\ lastErr = "Failed to load TLS key pair"
    /\ opened >= 1 /\ servedOn # {}

====
